---- MODULE Spec2Model ----
(***************************************************************************)
(* Model of the PhishingDetector backend.                                  *)
(*                                                                         *)
(*   - the analysis dispatcher (backend/analysis_service.py): one bulk     *)
(*     batch, cut at its only suspension point, the awaited POST to the    *)
(*     classification webhook;                                             *)
(*   - the aggregation layer (backend/supabase_service.py): the record     *)
(*     store and the four read-only queries over it;                       *)
(*   - the HTTP endpoints (backend/main.py): the query handlers over the   *)
(*     store, /api/statistics also cut at its three store queries, and     *)
(*     the two analysis handlers over the dispatcher.                      *)
(*                                                                         *)
(* Python dicts are functions whose DOMAIN is the set of keys present, so  *)
(* that dict.get(key, default) is modelled by what it does.  A Python str  *)
(* that the code only compares or uses as a key is a TLA+ string; a str    *)
(* that the code splits or strips is a sequence of symbols (see Split).    *)
(***************************************************************************)
EXTENDS Integers, Sequences, FiniteSets, TLC

VARIABLES
    \* ---- dispatcher (AnalysisService) ----
    pc,          \* position of analyze_bulk_urls: idle, loop, await, done, raised
                 \* (single: the /api/analyze handler awaits analyze_single_url)
    urls,        \* its argument
    idx,         \* position of the for loop in urls (1-based)
    results,     \* local list results
    successful,  \* local counter
    failed,      \* local counter
    bulk_return, \* the returned dict (<<>> until the return statement)
    inflight,    \* positions whose POST is awaiting the endpoint
    sent,        \* sent[p]: number of POSTs the endpoint received for position p
    log,         \* log[k]: what the endpoint did with the k-th POST
    \* ---- aggregation (SupabaseService) ----
    store,       \* rows of table analysis_results
    op,          \* the last query run
    data,        \* the rows that query read
    reply,       \* what it returned
    \* ---- HTTP endpoints (main.py) ----
    request,     \* the request being served: endpoint and parameters
    http_response, \* its response: status_code and body or detail
    reads        \* the row lists the handler's store queries returned, in order

dvars == <<pc, urls, idx, results, successful, failed, bulk_return, inflight, sent, log>>
avars == <<store, op, data, reply>>
hvars == <<request, http_response, reads>>
vars == <<pc, urls, idx, results, successful, failed, bulk_return, inflight, sent, log,
          store, op, data, reply, request, http_response, reads>>

\* ---------------------------------------------------------------------------
\* Bounds of the model
\* ---------------------------------------------------------------------------
MaxUrls == 3
MaxRecords == 3
MaxApiRecords == 2
MaxFrameRecords == 1

\* ---------------------------------------------------------------------------
\* Python helpers
\* ---------------------------------------------------------------------------
\* dict.get(key, default)
Get(item, key, default) == IF key \in DOMAIN item THEN item[key] ELSE default

SeqsUpTo(S, n) == UNION {[1..k -> S] : k \in 0..n}

\* ===========================================================================
\* Dispatcher: backend/analysis_service.py
\* ===========================================================================
Urls == {"http://a.example", "http://b.example"}

\* What the webhook can do with one POST.  A response carries status_code and
\* text; an exception carries its class and its str().
Behaviours ==
    { [kind |-> "response", status_code |-> 200, text |-> "{\"is_phishing\": true}"],
      [kind |-> "response", status_code |-> 200, text |-> "<html>gateway</html>"],
      [kind |-> "response", status_code |-> 404, text |-> "Not Found"],
      [kind |-> "response", status_code |-> 500, text |-> ""],
      [kind |-> "exception", class |-> "ReadTimeout", msg |-> ""],
      [kind |-> "exception", class |-> "ConnectTimeout", msg |-> "timed out"],
      [kind |-> "exception", class |-> "ConnectError", msg |-> "All connection attempts failed"] }

\* Exception classes and their bases (httpx and json).
Bases(class) ==
    CASE class = "ReadTimeout"     -> {"ReadTimeout", "TimeoutException", "TransportError", "HTTPError", "Exception"}
      [] class = "ConnectTimeout"  -> {"ConnectTimeout", "TimeoutException", "TransportError", "HTTPError", "Exception"}
      [] class = "ConnectError"    -> {"ConnectError", "NetworkError", "TransportError", "HTTPError", "Exception"}
      [] class = "JSONDecodeError" -> {"JSONDecodeError", "ValueError", "Exception"}
      [] OTHER                     -> {class}

IsInstance(exc, class) == class \in Bases(exc.class)

\* response.json(): the decoded body, or JSONDecodeError.
JsonBodies == {"{\"is_phishing\": true}"}

response_json(response) ==
    IF response.text \in JsonBodies
    THEN [ret |-> [is_phishing |-> TRUE]]
    ELSE [exc |-> [class |-> "JSONDecodeError", msg |-> "Expecting value: line 1 column 1 (char 0)"]]

\* The try body of analyze_single_url: either a returned dict (ret) or an
\* exception leaving the body (exc).
TryBody(url, beh) ==
    IF beh.kind = "exception"
    THEN [exc |-> [class |-> beh.class, msg |-> beh.msg]]
    ELSE IF beh.status_code = 200
         THEN LET j == response_json(beh) IN
              IF "exc" \in DOMAIN j
              THEN [exc |-> j.exc]
              ELSE [ret |-> [url |-> url, status |-> "success", data |-> j.ret]]
         ELSE [ret |-> [url |-> url, status |-> "error",
                        error |-> "HTTP " \o ToString(beh.status_code) \o ": " \o beh.text]]

TimeoutMessage == "Request timeout (>60s)"

\* The class the second except clause catches.
Caught_HTTPErrorOnly == "HTTPError"
Caught == "Exception"

\* The except clauses, in order.  The value is [ret |-> dict, via |-> clause]
\* when the call returns and [exc |-> e] when the exception propagates to
\* the caller.
Handlers_GenericFirst(url, exc) ==
    IF IsInstance(exc, Caught)
    THEN [ret |-> [url |-> url, status |-> "error", error |-> exc.msg], via |-> "except Exception"]
    ELSE [exc |-> exc]
Handlers(url, exc) ==
    IF IsInstance(exc, "TimeoutException")
    THEN [ret |-> [url |-> url, status |-> "error", error |-> TimeoutMessage],
          via |-> "except TimeoutException"]
    ELSE IF IsInstance(exc, Caught)
         THEN [ret |-> [url |-> url, status |-> "error", error |-> exc.msg],
               via |-> "except Exception"]
         ELSE [exc |-> exc]

\* analyze_single_url(url) when the webhook behaves as beh.
analyze_single_url(url, beh) ==
    LET body == TryBody(url, beh) IN
    IF "ret" \in DOMAIN body
    THEN [ret |-> body.ret, via |-> "try"]
    ELSE Handlers(url, body.exc)

\* ---- analyze_bulk_urls, one action per step between suspension points ----

\* Entry with argument us: results = [], successful = 0, failed = 0, and the
\* for loop starts.
Enter(us) ==
    /\ pc = "idle"
    /\ urls' = us
    /\ sent' = [p \in 1..Len(us) |-> 0]
    /\ idx' = 1
    /\ results' = <<>>
    /\ successful' = 0
    /\ failed' = 0
    /\ pc' = "loop"
    /\ UNCHANGED <<bulk_return, inflight, log>>

\* A call of analyze_bulk_urls by a direct caller.
StartBulk == \E us \in SeqsUpTo(Urls, MaxUrls) : Enter(us)

\* The positions whose request goes out when the loop reaches position idx.
Posted_AllAtOnce(i, us) == i..Len(us)
Posted(i, us) == {i}

\* for url in urls: result = await self.analyze_single_url(url) -- the POST
\* leaves and the coroutine is suspended until the webhook answers.
Post ==
    /\ pc = "loop"
    /\ idx <= Len(urls)
    /\ inflight' = inflight \cup Posted(idx, urls)
    /\ sent' = [p \in DOMAIN sent |-> IF p \in Posted(idx, urls) THEN sent[p] + 1 ELSE sent[p]]
    /\ pc' = "await"
    /\ UNCHANGED <<urls, idx, results, successful, failed, bulk_return, log>>

\* The position the loop handles after the one at idx, given its result.
Advance_StopOnError(i, us, result) == IF result.status = "success" THEN i + 1 ELSE Len(us) + 1
Advance_StopOnTimeout(i, us, result) ==
    IF "error" \in DOMAIN result /\ result.error = TimeoutMessage THEN Len(us) + 1 ELSE i + 1
Advance(i, us, result) == i + 1

\* successful / failed after result.
Tally_ErrorsOnly(result, counters) ==
    IF result.status = "success"
    THEN [successful |-> counters.successful + 1, failed |-> counters.failed]
    ELSE IF "error" \in DOMAIN result /\ result.error = TimeoutMessage
         THEN counters
         ELSE [successful |-> counters.successful, failed |-> counters.failed + 1]
Tally(result, counters) ==
    IF result.status = "success"
    THEN [successful |-> counters.successful + 1, failed |-> counters.failed]
    ELSE [successful |-> counters.successful, failed |-> counters.failed + 1]

\* The behaviours explored for a batch: all of them for the batches within
\* MaxUrls, the plain 200 answer for the longer ones (which are run only to
\* their end, not through every combination of outcomes).
Answers(us) ==
    IF Len(us) <= MaxUrls
    THEN Behaviours
    ELSE {beh \in Behaviours : beh.kind = "response" /\ beh.status_code = 200 /\ beh.text \in JsonBodies}

\* The webhook answers (or the wait ends) as beh: analyze_single_url returns,
\* the result is appended and tallied, and the loop moves on.  An exception
\* leaving analyze_single_url would leave analyze_bulk_urls too.
Respond ==
    /\ pc = "await"
    /\ \E beh \in Answers(urls) :
          LET out == analyze_single_url(urls[idx], beh) IN
          /\ log' = Append(log, [pos |-> idx, beh |-> beh,
                                 via |-> IF "ret" \in DOMAIN out THEN out.via ELSE "raise"])
          /\ inflight' = inflight \ {idx}
          /\ IF "ret" \in DOMAIN out
             THEN LET t == Tally(out.ret, [successful |-> successful, failed |-> failed]) IN
                  /\ results' = Append(results, out.ret)
                  /\ successful' = t.successful
                  /\ failed' = t.failed
                  /\ idx' = Advance(idx, urls, out.ret)
                  /\ pc' = "loop"
             ELSE /\ pc' = "raised"
                  /\ UNCHANGED <<results, successful, failed, idx>>
    /\ UNCHANGED <<urls, bulk_return, sent>>

\* The loop is exhausted: return the summary dict.
Return ==
    /\ pc = "loop"
    /\ idx > Len(urls)
    /\ bulk_return' = [total_urls |-> Len(urls), successful |-> successful,
                       failed |-> failed, results |-> results]
    /\ pc' = "done"
    /\ UNCHANGED <<urls, idx, results, successful, failed, inflight, sent, log>>

InitDispatcher ==
    /\ pc = "idle"
    /\ urls = <<>>
    /\ idx = 1
    /\ results = <<>>
    /\ successful = 0
    /\ failed = 0
    /\ bulk_return = <<>>
    /\ inflight = {}
    /\ sent = <<>>
    /\ log = <<>>

InitStoreEmpty ==
    /\ store = <<>>
    /\ op = "none"
    /\ data = <<>>
    /\ reply = <<>>

\* No request is being served.
InitNoRequest ==
    /\ request = [endpoint |-> "none"]
    /\ http_response = [status_code |-> 0]
    /\ reads = <<>>

InitBulk == InitDispatcher /\ InitStoreEmpty /\ InitNoRequest

NextBulk ==
    \/ StartBulk /\ UNCHANGED <<avars, hvars>>
    \/ Post /\ UNCHANGED <<avars, hvars>>
    \/ Respond /\ UNCHANGED <<avars, hvars>>
    \/ Return /\ UNCHANGED <<avars, hvars>>

SpecBulk == InitBulk /\ [][NextBulk]_vars

\* The batch under the scheduling the code relies on: the event loop runs a
\* coroutine that is ready (Post, Return), and every awaited POST ends, with
\* an answer, an error or the timeout of self.timeout seconds (Respond).
BulkFairness ==
    /\ WF_vars(Post /\ UNCHANGED <<avars, hvars>>)
    /\ WF_vars(Respond /\ UNCHANGED <<avars, hvars>>)
    /\ WF_vars(Return /\ UNCHANGED <<avars, hvars>>)

SpecBulkLive == InitBulk /\ [][NextBulk]_vars /\ BulkFairness

\* ===========================================================================
\* Aggregation: backend/supabase_service.py
\* ===========================================================================
\* A str the code splits or strips is a sequence of symbols: "," and " " and
\* "T" stand for themselves, any other symbol stands for a run of characters
\* that holds none of the separators applied to that str.
Whitespace == {" "}

\* str.split(sep): the pieces between the occurrences of sep (always at least
\* one piece, possibly empty).
RECURSIVE Split(_, _)
Split(s, sep) ==
    IF \A i \in 1..Len(s) : s[i] # sep
    THEN <<s>>
    ELSE LET i == CHOOSE j \in 1..Len(s) : s[j] = sep /\ \A k \in 1..(j - 1) : s[k] # sep
         IN <<SubSeq(s, 1, i - 1)>> \o Split(SubSeq(s, i + 1, Len(s)), sep)

\* str.strip(): leading and trailing whitespace removed.
RECURSIVE Strip(_)
Strip(s) ==
    IF s = <<>> THEN s
    ELSE IF s[1] \in Whitespace THEN Strip(Tail(s))
    ELSE IF s[Len(s)] \in Whitespace THEN Strip(SubSeq(s, 1, Len(s) - 1))
    ELSE s

\* Optional[datetime]: None, or a datetime of a day number (days since
\* 2023-12-31) and a time of day in milliseconds.
None == <<>>
IsNone(x) == DOMAIN x = {}
datetime(day, ms) == [date |-> day, time |-> ms]

\* The instant a datetime or a stored timestamp denotes, in milliseconds.
Instant(dt) == dt.date * 86400000 + dt.time

\* The timestamps the store holds, as the ISO-8601 text the client receives
\* (a sequence of symbols: date, "T", time), with the reading of each symbol.
DayNumber(sym) ==
    CASE sym = "2024-01-01" -> 1
      [] sym = "2024-01-02" -> 2
      [] sym = "2024-01-05" -> 5
      [] sym = "2024-01-06" -> 6

TimeMs(sym) ==
    CASE sym = "00:00:00" -> 0
      [] sym = "09:00:00" -> 32400000
      [] sym = "10:00:00" -> 36000000
      [] sym = "15:00:00" -> 54000000
      [] sym = "23:59:00" -> 86340000
      [] sym = "23:59:59.500" -> 86399500

\* The timestamp value of a stored analysis_date.
Timestamp(date_str) == datetime(DayNumber(date_str[1]), TimeMs(date_str[3]))

\* The rows the table can hold.  Every column value the queries distinguish
\* occurs: scores on both sides of each bucket edge, the three confidence
\* levels, an unrecognised one and a missing one, sources as str and as list,
\* with repeated, empty and blank tokens, and timestamps over several days.
Records ==
    { [url |-> "http://a.example", is_phishing |-> FALSE, risk_score |-> 10,
       confidence_level |-> "low",
       sources_checked |-> [str |-> <<"VirusTotal", ",", " ", "Heuristic">>],
       analysis_date |-> <<"2024-01-01", "T", "10:00:00">>],
      [url |-> "http://b.example", is_phishing |-> TRUE, risk_score |-> 85,
       confidence_level |-> "high",
       sources_checked |-> [str |-> <<"VirusTotal">>],
       analysis_date |-> <<"2024-01-01", "T", "15:00:00">>],
      [url |-> "http://c.example", is_phishing |-> FALSE, risk_score |-> 50,
       confidence_level |-> "medium",
       sources_checked |-> [list |-> << <<"VirusTotal">>, <<"Heuristic">>, <<"VirusTotal">> >>],
       analysis_date |-> <<"2024-01-02", "T", "09:00:00">>],
      [url |-> "http://d.example", is_phishing |-> TRUE, risk_score |-> 39,
       confidence_level |-> "unknown",
       sources_checked |-> [str |-> <<>>],
       analysis_date |-> <<"2024-01-05", "T", "23:59:00">>],
      [url |-> "http://e.example", is_phishing |-> FALSE, risk_score |-> 40,
       sources_checked |-> [list |-> <<>>],
       analysis_date |-> <<"2024-01-05", "T", "23:59:59.500">>],
      [url |-> "http://f.example", risk_score |-> 69,
       confidence_level |-> "HIGH",
       sources_checked |-> [str |-> <<"VirusTotal", ",", "VirusTotal">>],
       analysis_date |-> <<"2024-01-05", "T", "00:00:00">>],
      [url |-> "http://g.example", is_phishing |-> TRUE, risk_score |-> 70,
       confidence_level |-> "high",
       sources_checked |-> [str |-> <<"Heuristic", ",", " ", ",", "PhishTank", ",">>],
       analysis_date |-> <<"2024-01-06", "T", "00:00:00">>],
      [url |-> "http://h.example", is_phishing |-> TRUE,
       confidence_level |-> "medium",
       sources_checked |-> [str |-> <<" ", " ">>],
       analysis_date |-> <<"2024-01-02", "T", "23:59:00">>] }

\* The arguments the callers pass as start_date / end_date.
DateArgs ==
    { None,
      datetime(1, 0),
      datetime(2, 0),
      datetime(5, 86399000) }

\* ORDER BY analysis_date DESC over rows: a row precedes the rows whose
\* timestamp is earlier, and rows with equal timestamps keep the order the
\* table holds them in (SortSeq moves a row only past rows it precedes).
Later(a, b) == Instant(Timestamp(a.analysis_date)) > Instant(Timestamp(b.analysis_date))

OrderDesc(rows) == SortSeq(rows, Later)

\* SELECT * ... WHERE analysis_date >= start AND analysis_date <= end.
InRange(row, start_date, end_date) ==
    /\ Instant(Timestamp(row.analysis_date)) >= Instant(start_date)
    /\ Instant(Timestamp(row.analysis_date)) <= Instant(end_date)

Filter(rows, start_date, end_date) ==
    LET Selected(row) == InRange(row, start_date, end_date)
    IN SelectSeq(rows, Selected)

\* ....execute(): the selected rows when the store answers (up), an exception
\* of the client library when it does not.  `response.data if response.data
\* else []` leaves a list as it is.
Execute_Redacted(selected, up) ==
    IF up THEN [ret |-> [i \in DOMAIN selected |->
                            [k \in DOMAIN selected[i] \ {"url"} |-> selected[i][k]]]]
    ELSE [exc |-> [class |-> "APIError", msg |-> "store unavailable"]]
Execute(selected, up) ==
    IF up THEN [ret |-> selected]
    ELSE [exc |-> [class |-> "APIError", msg |-> "store unavailable"]]

\* except Exception as e: print(...); return []
Rescue_Reraise(out) == out
Rescue(out) == IF "exc" \in DOMAIN out THEN [ret |-> <<>>] ELSE out

\* get_analyses_by_date_range: [ret |-> the rows in range, most recent
\* first], or [ret |-> []] when the query raises.
get_analyses_by_date_range(rows, up, start_date, end_date) ==
    Rescue(Execute(OrderDesc(Filter(rows, start_date, end_date)), up))

\* get_all_analyses: [ret |-> all rows, most recent first], or [ret |-> []]
\* when the query raises.
get_all_analyses_FirstRow(rows, up) ==
    Rescue(Execute(IF rows = <<>> THEN <<>> ELSE <<OrderDesc(rows)[1]>>, up))
get_all_analyses(rows, up) ==
    Rescue(Execute(OrderDesc(rows), up))

\* if start_date and end_date: ... else: ... -- the rows an aggregate reads.
Fetch_AnyBound(rows, up, start_date, end_date) ==
    IF IsNone(start_date) /\ IsNone(end_date)
    THEN get_all_analyses(rows, up)
    ELSE get_analyses_by_date_range(rows, up,
             IF IsNone(start_date) THEN datetime(0, 0) ELSE start_date,
             IF IsNone(end_date) THEN datetime(9, 0) ELSE end_date)
Fetch(rows, up, start_date, end_date) ==
    IF ~IsNone(start_date) /\ ~IsNone(end_date)
    THEN get_analyses_by_date_range(rows, up, start_date, end_date)
    ELSE get_all_analyses(rows, up)

\* sum(xs) over integers: the sum of the two halves of the list (integer
\* addition gives the same total in every grouping).
Sum_First(xs) == IF xs = <<>> THEN 0 ELSE Head(xs)
RECURSIVE Sum(_)
Sum(xs) ==
    IF Len(xs) = 0 THEN 0
    ELSE IF Len(xs) = 1 THEN xs[1]
    ELSE LET half == Len(xs) \div 2
         IN Sum(SubSeq(xs, 1, half)) + Sum(SubSeq(xs, half + 1, Len(xs)))

\* ---- binary floating point.  num / den is the double nearest the quotient
\* and round(x, 2) rounds the exact value of that double, so a quotient that
\* is an exact decimal half (0.025) goes the way its double errs, and only a
\* half that is a double itself (0.125) goes to the even neighbour.  The
\* double is m * 2^-k with 2^52 <= m < 2^53; which way it errs is read from
\* remainders, which stay small. ----
RECURSIVE Gcd(_, _)
Gcd(a, b) == IF b = 0 THEN a ELSE Gcd(b, a % b)

RECURSIVE IsPowerOfTwo(_)
IsPowerOfTwo(d) == d = 1 \/ (d % 2 = 0 /\ IsPowerOfTwo(d \div 2))

\* The e with 2^e <= n / d < 2^(e + 1), for n > 0.
RECURSIVE FloorLog2(_, _)
FloorLog2(n, d) ==
    IF n >= 2 * d THEN FloorLog2(n, 2 * d) + 1
    ELSE IF n < d THEN FloorLog2(2 * n, d) - 1
    ELSE 0

\* (a * 2^k) % m
RECURSIVE TimesPow2Mod(_, _, _)
TimesPow2Mod(a, k, m) == IF k = 0 THEN a % m ELSE TimesPow2Mod((2 * a) % m, k - 1, m)

\* Floats with two decimals are counted in hundredths: 48.33 is 4833.
\* round(num / den, 2) for num >= 0, den > 0.
Round2(num, den) ==
    LET q == (num * 100) \div den
        rem == (num * 100) % den
    IN IF 2 * rem < den THEN q
       ELSE IF 2 * rem > den THEN q + 1
       ELSE LET g == Gcd(num, den)
                n == num \div g
                d == den \div g
            IN IF IsPowerOfTwo(d)
               THEN (IF q % 2 = 0 THEN q ELSE q + 1)
               ELSE LET k == 52 - FloorLog2(n, d)
                        r == TimesPow2Mod(n % d, k, d)
                    IN IF 2 * r > d THEN q + 1 ELSE q

\* round((phishing / total * 100), 2) for 0 <= phishing <= total, total > 0:
\* the quotient is rounded to a double, its product with 100 is rounded to a
\* double again, and round(.., 2) rounds the exact value of that.  With
\* phishing / total = m * 2^-k, delta is m * total - phishing * 2^k and eps is
\* what rounding 100 * m to 53 bits adds, so that the product is above the
\* exact percentage when 100 * delta + eps * total > 0.
Percentage(phishing, total) ==
    LET q == (phishing * 10000) \div total
        rem == (phishing * 10000) % total
    IN IF phishing = 0 THEN 0
       ELSE IF 2 * rem < total THEN q
       ELSE IF 2 * rem > total THEN q + 1
       ELSE LET g == Gcd(phishing, total)
                p == phishing \div g
                t == total \div g
                even == IF q % 2 = 0 THEN q ELSE q + 1
            IN IF IsPowerOfTwo(t) THEN even
               ELSE LET k == 52 - FloorLog2(p, t)
                        r == TimesPow2Mod(p % t, k, t)
                        up == 2 * r > t
                        delta == IF up THEN t - r ELSE 0 - r
                        m_low == ((TimesPow2Mod(p % (256 * t), k, 256 * t) \div t)
                                      + (IF up THEN 1 ELSE 0)) % 256
                        gap == IF k <= 59 THEN (2 ^ (59 - k)) * t - 100 * p
                               ELSE t - 100 * p * (2 ^ (k - 59))
                        s == IF gap > 0 \/ (gap = 0 /\ delta < 0) THEN 6 ELSE 7
                        low == (100 * m_low) % (2 ^ s)
                        half == 2 ^ (s - 1)
                        odd == ((100 * m_low) % (2 ^ (s + 1))) \div (2 ^ s) = 1
                        eps == IF low < half \/ (low = half /\ ~odd) THEN 0 - low
                               ELSE (2 ^ s) - low
                        sign == 100 * delta + eps * t
                    IN IF sign > 0 THEN q + 1
                       ELSE IF sign < 0 THEN q
                       ELSE even

\* item.get('is_phishing', False), as a condition
IsPhishing(item) == Get(item, "is_phishing", FALSE)

\* safe = total - phishing
SafeUrls_CountFalse(rows, total, phishing) ==
    Cardinality({i \in 1..Len(rows) : "is_phishing" \in DOMAIN rows[i] /\ ~rows[i].is_phishing})
SafeUrls(rows, total, phishing) == total - phishing

\* The three risk buckets.
LowRisk(score) == score < 40
MediumRisk_OpenBelow(score) == 40 < score /\ score < 70
MediumRisk(score) == 40 <= score /\ score < 70
HighRisk(score) == score >= 70

\* The dict returned when no row was read.
EmptyStatistics_NoDistribution ==
    [total_analyses |-> 0, phishing_detected |-> 0, safe_urls |-> 0,
     avg_risk_score |-> 0, phishing_percentage |-> 0]
EmptyStatistics ==
    [total_analyses |-> 0, phishing_detected |-> 0, safe_urls |-> 0,
     avg_risk_score |-> 0, phishing_percentage |-> 0,
     risk_distribution |-> [low |-> 0, medium |-> 0, high |-> 0]]

\* get_statistics over the rows read.
Statistics(rows) ==
    IF rows = <<>> THEN EmptyStatistics
    ELSE
    LET total == Len(rows)
        phishing == Cardinality({i \in 1..Len(rows) : IsPhishing(rows[i])})
        safe == SafeUrls(rows, total, phishing)
        risk_scores == [i \in 1..Len(rows) |-> Get(rows[i], "risk_score", 0)]
        low_risk == Cardinality({i \in 1..Len(rows) : LowRisk(risk_scores[i])})
        medium_risk == Cardinality({i \in 1..Len(rows) : MediumRisk(risk_scores[i])})
        high_risk == Cardinality({i \in 1..Len(rows) : HighRisk(risk_scores[i])})
    IN [total_analyses |-> total,
        phishing_detected |-> phishing,
        safe_urls |-> safe,
        avg_risk_score |-> IF total > 0 THEN Round2(Sum(risk_scores), total) ELSE 0,
        phishing_percentage |-> IF total > 0 THEN Percentage(phishing, total) ELSE 0,
        risk_distribution |-> [low |-> low_risk, medium |-> medium_risk, high |-> high_risk]]

\* item.get('confidence_level', 'low'): the default for a missing key.
ConfidenceDefault_Unset == "unset"
ConfidenceDefault == "low"

\* get_confidence_distribution over the rows read.
RECURSIVE ConfidenceFold_AnyKey(_, _)
ConfidenceFold_AnyKey(rows, distribution) ==
    IF rows = <<>> THEN distribution
    ELSE LET confidence == Get(Head(rows), "confidence_level", ConfidenceDefault)
         IN ConfidenceFold_AnyKey(Tail(rows),
                [k \in DOMAIN distribution \cup {confidence} |->
                    Get(distribution, k, 0) + (IF k = confidence THEN 1 ELSE 0)])
RECURSIVE ConfidenceFold(_, _)
ConfidenceFold(rows, distribution) ==
    IF rows = <<>> THEN distribution
    ELSE LET confidence == Get(Head(rows), "confidence_level", ConfidenceDefault)
         IN ConfidenceFold(Tail(rows),
                IF confidence \in DOMAIN distribution
                THEN [distribution EXCEPT ![confidence] = @ + 1]
                ELSE distribution)

ConfidenceDistribution(rows) ==
    IF rows = <<>> THEN [low |-> 0, medium |-> 0, high |-> 0]
    ELSE ConfidenceFold(rows, [low |-> 0, medium |-> 0, high |-> 0])

\* counts[key] = counts.get(key, 0) + 1
Increment(counts, key) ==
    IF key \in DOMAIN counts
    THEN [counts EXCEPT ![key] = @ + 1]
    ELSE [k \in DOMAIN counts \cup {key} |-> IF k = key THEN 1 ELSE counts[k]]

RECURSIVE IncrementAll(_, _)
IncrementAll(counts, keys) ==
    IF keys = <<>> THEN counts
    ELSE IncrementAll(Increment(counts, Head(keys)), Tail(keys))

\* The source_list of one row: a str is split on commas and each piece
\* stripped, a list is used as it is, a falsy value contributes nothing.
SourceList(item) ==
    LET sources == Get(item, "sources_checked", [str |-> <<>>]) IN
    IF "str" \in DOMAIN sources
    THEN IF sources.str = <<>> THEN <<>>
         ELSE LET pieces == Split(sources.str, ",")
              IN [i \in 1..Len(pieces) |-> Strip(pieces[i])]
    ELSE sources.list

\* get_sources_usage over the rows read: a dict from source name to count.
RECURSIVE SourcesFold(_, _)
SourcesFold(rows, sources_count) ==
    IF rows = <<>> THEN sources_count
    ELSE SourcesFold(Tail(rows), IncrementAll(sources_count, SourceList(Head(rows))))

SourcesUsage(rows) == IF rows = <<>> THEN <<>> ELSE SourcesFold(rows, <<>>)

\* Grouping by date_str.split('T')[0].
RECURSIVE DailyFold(_, _)
DailyFold(rows, daily_counts) ==
    IF rows = <<>> THEN daily_counts
    ELSE LET date_str == Get(Head(rows), "analysis_date", <<>>)
         IN DailyFold(Tail(rows),
                IF date_str # <<>>
                THEN Increment(daily_counts, Split(date_str, "T")[1])
                ELSE daily_counts)

\* Python's order of two date keys (ISO dates compare as their day numbers).
KeyLess_Reversed(a, b) == DayNumber(a[1]) > DayNumber(b[1])
KeyLess(a, b) == DayNumber(a[1]) < DayNumber(b[1])

\* sorted(daily_counts.items()) as a list of {date, count}.
RECURSIVE SortedItems(_)
SortedItems(daily_counts) ==
    IF DOMAIN daily_counts = {} THEN <<>>
    ELSE LET first == CHOOSE k \in DOMAIN daily_counts :
                          \A other \in DOMAIN daily_counts \ {k} : KeyLess(k, other)
             rest == [k \in DOMAIN daily_counts \ {first} |-> daily_counts[k]]
         IN <<[date |-> first, count |-> daily_counts[first]]>> \o SortedItems(rest)

\* get_daily_analysis_count over the rows read.
DailyCounts(rows) == IF rows = <<>> THEN <<>> ELSE SortedItems(DailyFold(rows, <<>>))

\* ---- the four queries, each one call of a SupabaseService method ----
\* up is whether the store answers the query; when it raises, the fetch
\* yields [].  An exception leaving the fetch would leave the method: reply
\* is then [exc |-> e].

\* The rows a fetch handed to its caller.
Rows(fetched) == IF "exc" \in DOMAIN fetched THEN <<>> ELSE fetched.ret

get_statistics ==
    \E start_date \in DateArgs, end_date \in DateArgs, up \in BOOLEAN :
        LET fetched == Fetch(store, up, start_date, end_date) IN
        /\ op' = "get_statistics"
        /\ data' = Rows(fetched)
        /\ reply' = IF "exc" \in DOMAIN fetched THEN fetched ELSE Statistics(fetched.ret)
        /\ UNCHANGED store

get_confidence_distribution ==
    \E start_date \in DateArgs, end_date \in DateArgs, up \in BOOLEAN :
        LET fetched == Fetch(store, up, start_date, end_date) IN
        /\ op' = "get_confidence_distribution"
        /\ data' = Rows(fetched)
        /\ reply' = IF "exc" \in DOMAIN fetched THEN fetched ELSE ConfidenceDistribution(fetched.ret)
        /\ UNCHANGED store

get_sources_usage ==
    \E start_date \in DateArgs, end_date \in DateArgs, up \in BOOLEAN :
        LET fetched == Fetch(store, up, start_date, end_date) IN
        /\ op' = "get_sources_usage"
        /\ data' = Rows(fetched)
        /\ reply' = IF "exc" \in DOMAIN fetched THEN fetched ELSE SourcesUsage(fetched.ret)
        /\ UNCHANGED store

get_daily_analysis_count ==
    \E start_date \in DateArgs \ {None}, end_date \in DateArgs \ {None}, up \in BOOLEAN :
        LET fetched == get_analyses_by_date_range(store, up, start_date, end_date) IN
        /\ op' = "get_daily_analysis_count"
        /\ data' = Rows(fetched)
        /\ reply' = IF "exc" \in DOMAIN fetched THEN fetched ELSE DailyCounts(fetched.ret)
        /\ UNCHANGED store

InitAgg ==
    /\ InitDispatcher
    /\ store \in SeqsUpTo(Records, MaxRecords)
    /\ op = "none"
    /\ data = <<>>
    /\ reply = <<>>
    /\ InitNoRequest

\* One call per behaviour: the aggregates keep nothing between calls and leave
\* the store as it is, so what a call returns depends on the store and its
\* arguments alone, and a first call reaches every state a later call reaches.
NextAgg ==
    \/ op = "none" /\ get_statistics /\ UNCHANGED <<dvars, hvars>>
    \/ op = "none" /\ get_confidence_distribution /\ UNCHANGED <<dvars, hvars>>
    \/ op = "none" /\ get_sources_usage /\ UNCHANGED <<dvars, hvars>>
    \/ op = "none" /\ get_daily_analysis_count /\ UNCHANGED <<dvars, hvars>>

SpecAgg == InitAgg /\ [][NextAgg]_vars

\* ---- get_statistics over long tables ----
\* A quotient is an exact decimal half only from 8 rows on, and one that is
\* not a double itself only from 40 (the mean) and 160 (the percentage).  The
\* long tables hold two kinds of row, phishing ones of score 100 first and
\* safe ones of score 0 after them, so that the mean and the percentage have
\* the same exact value.
MaxTableRows == 160

PhishingRecord ==
    [url |-> "http://b.example", is_phishing |-> TRUE, risk_score |-> 100,
     confidence_level |-> "high",
     sources_checked |-> [str |-> <<"VirusTotal">>],
     analysis_date |-> <<"2024-01-01", "T", "15:00:00">>]

SafeRecord ==
    [url |-> "http://a.example", is_phishing |-> FALSE, risk_score |-> 0,
     confidence_level |-> "low",
     sources_checked |-> [str |-> <<"VirusTotal">>],
     analysis_date |-> <<"2024-01-02", "T", "09:00:00">>]

Table(phishing, total) ==
    [i \in 1..total |-> IF i <= phishing THEN PhishingRecord ELSE SafeRecord]

InitTable ==
    /\ InitDispatcher
    /\ store \in SeqsUpTo(Records, MaxRecords)
                 \cup {Table(phishing, total) : phishing \in {1, 23}, total \in 1..MaxTableRows}
    /\ op = "none"
    /\ data = <<>>
    /\ reply = <<>>
    /\ InitNoRequest

NextTable == op = "none" /\ get_statistics /\ UNCHANGED <<dvars, hvars>>

SpecTable == InitTable /\ [][NextTable]_vars

\* ===========================================================================
\* Query endpoints: backend/main.py
\* ===========================================================================
\* A query parameter is None when absent and [str |-> text] when present.
QueryParams ==
    { None,
      [str |-> ""],
      [str |-> "2024-01-01"],
      [str |-> "2024-01-05"],
      [str |-> "2024-01-02T12:00:00"],
      [str |-> "05/01/2024"] }

\* `if start_date` on Optional[str]
Given(param) == ~IsNone(param) /\ param.str # ""

\* datetime.fromisoformat(text): the datetime, or ValueError.
fromisoformat(text) ==
    CASE text = "2024-01-01" -> [ret |-> datetime(1, 0)]
      [] text = "2024-01-05" -> [ret |-> datetime(5, 0)]
      [] text = "2024-01-02T12:00:00" -> [ret |-> datetime(2, 43200000)]
      [] OTHER -> [exc |-> [class |-> "ValueError",
                            msg |-> "Invalid isoformat string: '" \o text \o "'"]]

\* datetime.combine(end.date(), time(23, 59, 59))
EndOfDay(end) == datetime(end.date, 86399000)

\* except ValueError -> 400, except Exception -> 500
ErrorResponse(exc) ==
    IF exc.class = "ValueError"
    THEN [status_code |-> 400, detail |-> "Invalid date format: " \o exc.msg]
    ELSE [status_code |-> 500, detail |-> exc.msg]

\* The first exception among the outcomes of a handler's steps, in order.
FirstExc(outs) ==
    LET k == CHOOSE i \in 1..Len(outs) :
                 "exc" \in DOMAIN outs[i] /\ \A j \in 1..(i - 1) : "exc" \notin DOMAIN outs[j]
    IN outs[k].exc

Raises(outs) == \E i \in 1..Len(outs) : "exc" \in DOMAIN outs[i]

\* The row lists the store queries handed back before the first exception.
RECURSIVE ReadsOf(_)
ReadsOf(outs) ==
    IF outs = <<>> \/ "exc" \in DOMAIN Head(outs) THEN <<>>
    ELSE <<Head(outs).ret>> \o ReadsOf(Tail(outs))

\* {**stats, 'confidence_distribution': ..., 'sources_usage': ...} from the
\* rows each of the three service calls read.
StatisticsBody(stats_rows, confidence_rows, sources_rows) ==
    LET summary == Statistics(stats_rows) IN
    [k \in DOMAIN summary \cup {"confidence_distribution", "sources_usage"} |->
        CASE k = "confidence_distribution" -> ConfidenceDistribution(confidence_rows)
          [] k = "sources_usage" -> SourcesUsage(sources_rows)
          [] OTHER -> summary[k]]

\* GET /api/statistics when the table is tables[k] at the handler's k-th
\* store query and the store answers that query as ups[k].  The value is the
\* response and the row lists read.
api_statistics(tables, start_date, end_date, ups) ==
    LET start == IF Given(start_date) THEN fromisoformat(start_date.str) ELSE [ret |-> None]
        end == IF Given(end_date) THEN fromisoformat(end_date.str) ELSE [ret |-> None]
    IN IF Raises(<<start, end>>)
       THEN [response |-> ErrorResponse(FirstExc(<<start, end>>)), reads |-> <<>>]
       ELSE
       LET end_of_day == IF ~IsNone(end.ret) THEN EndOfDay(end.ret) ELSE None
           stats == Fetch(tables[1], ups[1], start.ret, end_of_day)
           confidence_dist == Fetch(tables[2], ups[2], start.ret, end_of_day)
           sources_usage == Fetch(tables[3], ups[3], start.ret, end_of_day)
           fetched == <<stats, confidence_dist, sources_usage>>
       IN IF Raises(fetched)
          THEN [response |-> ErrorResponse(FirstExc(fetched)), reads |-> ReadsOf(fetched)]
          ELSE [response |->
                   [status_code |-> 200,
                    body |-> StatisticsBody(stats.ret, confidence_dist.ret, sources_usage.ret)],
                reads |-> ReadsOf(fetched)]

\* GET /api/analyses.
api_analyses(rows, start_date, end_date, up) ==
    IF Given(start_date) /\ Given(end_date)
    THEN LET start == fromisoformat(start_date.str)
             end == fromisoformat(end_date.str)
         IN IF Raises(<<start, end>>)
            THEN [response |-> ErrorResponse(FirstExc(<<start, end>>)), reads |-> <<>>]
            ELSE LET fetched == get_analyses_by_date_range(rows, up, start.ret, EndOfDay(end.ret))
                 IN IF Raises(<<fetched>>)
                    THEN [response |-> ErrorResponse(fetched.exc), reads |-> <<>>]
                    ELSE [response |-> [status_code |-> 200,
                                        body |-> [total |-> Len(fetched.ret), data |-> fetched.ret]],
                          reads |-> <<fetched.ret>>]
    ELSE LET fetched == get_all_analyses(rows, up)
         IN IF Raises(<<fetched>>)
            THEN [response |-> ErrorResponse(fetched.exc), reads |-> <<>>]
            ELSE [response |-> [status_code |-> 200,
                                body |-> [total |-> Len(fetched.ret), data |-> fetched.ret]],
                  reads |-> <<fetched.ret>>]

\* GET /api/daily-counts (both parameters required, hence present).
api_daily_counts(rows, start_date, end_date, up) ==
    LET start == fromisoformat(start_date.str)
        end == fromisoformat(end_date.str)
    IN IF Raises(<<start, end>>)
       THEN [response |-> ErrorResponse(FirstExc(<<start, end>>)), reads |-> <<>>]
       ELSE LET fetched == get_analyses_by_date_range(rows, up, start.ret, EndOfDay(end.ret))
            IN IF Raises(<<fetched>>)
               THEN [response |-> ErrorResponse(fetched.exc), reads |-> <<>>]
               ELSE [response |-> [status_code |-> 200,
                                   body |-> [data |-> DailyCounts(fetched.ret)]],
                     reads |-> <<fetched.ret>>]

\* ---- one request served per behaviour: the handlers keep nothing between
\* requests, so a response depends on the request and on what the store held
\* and answered at each query.  request.ups[k] and request.tables[k] record
\* whether the store answered the handler's k-th query and the table it held
\* then ----

\* GET /api/statistics is cut at its three store queries: the store is a
\* remote service, so between two queries of one request it may take a new
\* row or stop (or start) answering.

\* The handler parses its parameters; a malformed one ends the request.
StatsEnter ==
    /\ request.endpoint = "none"
    /\ \E start_date \in QueryParams, end_date \in QueryParams :
          LET start == IF Given(start_date) THEN fromisoformat(start_date.str) ELSE [ret |-> None]
              end == IF Given(end_date) THEN fromisoformat(end_date.str) ELSE [ret |-> None]
          IN IF Raises(<<start, end>>)
             THEN /\ request' = [endpoint |-> "/api/statistics", start_date |-> start_date,
                                 end_date |-> end_date, start |-> None, end |-> None,
                                 ups |-> <<>>, tables |-> <<>>]
                  /\ http_response' = ErrorResponse(FirstExc(<<start, end>>))
             ELSE /\ request' = [endpoint |-> "/api/statistics", start_date |-> start_date,
                                 end_date |-> end_date, start |-> start.ret,
                                 end |-> IF ~IsNone(end.ret) THEN EndOfDay(end.ret) ELSE None,
                                 ups |-> <<>>, tables |-> <<>>]
                  /\ UNCHANGED http_response
    /\ UNCHANGED <<reads, store, op, data, reply>>

\* The next of get_statistics, get_confidence_distribution, get_sources_usage
\* runs its query; after the third the handler returns the merged dict.
StatsQuery ==
    /\ request.endpoint = "/api/statistics"
    /\ http_response.status_code = 0
    /\ Len(reads) < 3
    /\ \E up \in BOOLEAN :
          LET fetched == Fetch(store, up, request.start, request.end) IN
          /\ request' = [request EXCEPT !.ups = Append(@, up), !.tables = Append(@, store)]
          /\ IF "exc" \in DOMAIN fetched
             THEN /\ http_response' = ErrorResponse(fetched.exc)
                  /\ UNCHANGED reads
             ELSE /\ reads' = Append(reads, fetched.ret)
                  /\ http_response' =
                         IF Len(reads) = 2
                         THEN [status_code |-> 200,
                               body |-> StatisticsBody(reads[1], reads[2], fetched.ret)]
                         ELSE http_response
    /\ UNCHANGED <<store, op, data, reply>>

GetAnalyses ==
    /\ request.endpoint = "none"
    /\ \E start_date \in QueryParams, end_date \in QueryParams, up \in BOOLEAN :
          LET out == api_analyses(store, start_date, end_date, up) IN
          /\ request' = [endpoint |-> "/api/analyses", start_date |-> start_date,
                         end_date |-> end_date, ups |-> <<up>>, tables |-> <<store>>]
          /\ http_response' = out.response
          /\ reads' = out.reads
    /\ UNCHANGED <<store, op, data, reply>>

GetDailyCounts ==
    /\ request.endpoint = "none"
    /\ \E start_date \in QueryParams \ {None}, end_date \in QueryParams \ {None}, up \in BOOLEAN :
          LET out == api_daily_counts(store, start_date, end_date, up) IN
          /\ request' = [endpoint |-> "/api/daily-counts", start_date |-> start_date,
                         end_date |-> end_date, ups |-> <<up>>, tables |-> <<store>>]
          /\ http_response' = out.response
          /\ reads' = out.reads
    /\ UNCHANGED <<store, op, data, reply>>

\* The classification workflow stores the record of an analysis while a
\* request is being served.  (A record stored before the request is a row of
\* the initial table; one stored after the response changes nothing in it.)
Insert ==
    /\ request.endpoint # "none"
    /\ http_response.status_code = 0
    /\ Len(store) < MaxApiRecords
    /\ \E row \in Records : store' = Append(store, row)
    /\ UNCHANGED <<op, data, reply, request, http_response, reads>>

InitApi ==
    /\ InitDispatcher
    /\ store \in SeqsUpTo(Records, MaxApiRecords)
    /\ op = "none"
    /\ data = <<>>
    /\ reply = <<>>
    /\ InitNoRequest

NextApi ==
    \/ StatsEnter /\ UNCHANGED dvars
    \/ StatsQuery /\ UNCHANGED dvars
    \/ GetAnalyses /\ UNCHANGED dvars
    \/ GetDailyCounts /\ UNCHANGED dvars
    \/ Insert /\ UNCHANGED dvars

SpecApi == InitApi /\ [][NextApi]_vars

\* ---- direct service calls and requests over one table: a behaviour is any
\* number of direct calls of the four aggregates, or one request to a query
\* endpoint with the workflow storing records meanwhile ----
InitFrame ==
    /\ InitDispatcher
    /\ store \in SeqsUpTo(Records, MaxFrameRecords)
    /\ op = "none"
    /\ data = <<>>
    /\ reply = <<>>
    /\ InitNoRequest

NextFrame ==
    \/ request.endpoint = "none" /\ get_statistics /\ UNCHANGED <<dvars, hvars>>
    \/ request.endpoint = "none" /\ get_confidence_distribution /\ UNCHANGED <<dvars, hvars>>
    \/ request.endpoint = "none" /\ get_sources_usage /\ UNCHANGED <<dvars, hvars>>
    \/ request.endpoint = "none" /\ get_daily_analysis_count /\ UNCHANGED <<dvars, hvars>>
    \/ op = "none" /\ StatsEnter /\ UNCHANGED dvars
    \/ StatsQuery /\ UNCHANGED dvars
    \/ op = "none" /\ GetAnalyses /\ UNCHANGED dvars
    \/ op = "none" /\ GetDailyCounts /\ UNCHANGED dvars
    \/ Insert /\ UNCHANGED dvars

SpecFrame == InitFrame /\ [][NextFrame]_vars

\* ===========================================================================
\* Analysis endpoints: backend/main.py and backend/models.py
\* ===========================================================================
\* if result['status'] == 'error'
IsErrorResult_Never(result) == FALSE
IsErrorResult(result) == result.status = "error"

\* The url values of the bodies sent to POST /api/analyze.
RequestUrls ==
    {"http://a.example", "http://b.example", "http://a.example/", "http://b.example/x",
     "not a url"}

\* URLAnalysisRequest.url: HttpUrl, read back with str(request.url): the URL
\* in normal form (an empty path becomes "/"), or a validation error.
HttpUrl(text) ==
    CASE text = "http://a.example" -> [ret |-> "http://a.example/"]
      [] text = "http://b.example" -> [ret |-> "http://b.example/"]
      [] text = "http://a.example/" -> [ret |-> "http://a.example/"]
      [] text = "http://b.example/x" -> [ret |-> "http://b.example/x"]
      [] OTHER -> [exc |-> [class |-> "ValidationError",
                            msg |-> "Input should be a valid URL"]]

\* POST /api/analyze with body {url} when the webhook behaves as beh.  A body
\* that fails validation is answered 422 and the handler does not run.  The
\* HTTPException raised for an error result is caught by the handler's own
\* `except Exception` and raised again with detail str(e).
api_analyze(url, beh) ==
    IF "exc" \in DOMAIN HttpUrl(url)
    THEN [status_code |-> 422, detail |-> HttpUrl(url).exc.msg]
    ELSE
    LET out == analyze_single_url(HttpUrl(url).ret, beh) IN
    IF "exc" \in DOMAIN out
    THEN [status_code |-> 500, detail |-> out.exc.msg]
    ELSE IF IsErrorResult(out.ret)
         THEN [status_code |-> 500, detail |-> "500: " \o out.ret.error]
         ELSE [status_code |-> 200, body |-> out.ret]

\* POST /api/analyze arrives: the body is validated and the handler awaits
\* analyze_single_url(str(request.url)), whose POST leaves for the webhook.
\* pc = "single" is the handler suspended at that await.
AnalyzeUrl ==
    /\ request.endpoint = "none"
    /\ pc = "idle"
    /\ \E url \in RequestUrls :
          /\ request' = [endpoint |-> "/api/analyze", url |-> url]
          /\ IF "exc" \in DOMAIN HttpUrl(url)
             THEN /\ http_response' = [status_code |-> 422, detail |-> HttpUrl(url).exc.msg]
                  /\ UNCHANGED <<pc, urls, sent, inflight>>
             ELSE /\ urls' = <<HttpUrl(url).ret>>
                  /\ sent' = <<1>>
                  /\ inflight' = {1}
                  /\ pc' = "single"
                  /\ UNCHANGED http_response
    /\ UNCHANGED <<reads, idx, results, successful, failed, bulk_return, log>>

\* The webhook answers (or the wait ends) as beh: analyze_single_url returns
\* and the handler answers the request.
AnalyzeUrlReturn ==
    /\ pc = "single"
    /\ \E beh \in Behaviours :
          LET out == analyze_single_url(urls[1], beh) IN
          /\ log' = Append(log, [pos |-> 1, beh |-> beh,
                                 via |-> IF "ret" \in DOMAIN out THEN out.via ELSE "raise"])
          /\ http_response' = api_analyze(request.url, beh)
    /\ inflight' = {}
    /\ pc' = "idle"
    /\ UNCHANGED <<request, reads, urls, idx, results, successful, failed, bulk_return, sent>>

\* BulkURLAnalysisRequest.urls: Field(..., min_items=1, max_items=100)
MinItems == 1
MaxItems == 100

ValidBulkRequest_NoMinimum(us) == Len(us) <= MaxItems
ValidBulkRequest(us) == Len(us) >= MinItems /\ Len(us) <= MaxItems

\* The bodies sent to POST /api/analyze/bulk: the short lists, and one list at
\* the limit and one just over it.
BulkRequests ==
    SeqsUpTo(Urls, MaxUrls)
        \cup {[p \in 1..MaxItems |-> "http://a.example"],
              [p \in 1..(MaxItems + 1) |-> "http://a.example"]}

\* POST /api/analyze/bulk arrives: a body that fails validation is answered
\* 422 before the handler runs; otherwise the handler calls analyze_bulk_urls.
AnalyzeBulk ==
    /\ request.endpoint = "none"
    /\ \E us \in BulkRequests :
          /\ request' = [endpoint |-> "/api/analyze/bulk", urls |-> us]
          /\ IF ValidBulkRequest(us)
             THEN /\ Enter(us)
                  /\ UNCHANGED http_response
             ELSE /\ http_response' = [status_code |-> 422, detail |-> "validation error"]
                  /\ UNCHANGED dvars
    /\ UNCHANGED reads

\* analyze_bulk_urls has returned (or raised): the handler answers.
AnalyzeBulkReturn ==
    /\ request.endpoint = "/api/analyze/bulk"
    /\ http_response.status_code = 0
    /\ pc \in {"done", "raised"}
    /\ http_response' = IF pc = "done"
                        THEN [status_code |-> 200, body |-> bulk_return]
                        ELSE [status_code |-> 500, detail |-> "analysis failed"]
    /\ UNCHANGED <<request, reads>>
    /\ UNCHANGED dvars

InitDispatch == InitDispatcher /\ InitStoreEmpty /\ InitNoRequest

NextDispatch ==
    \/ AnalyzeUrl /\ UNCHANGED avars
    \/ AnalyzeUrlReturn /\ UNCHANGED avars
    \/ AnalyzeBulk /\ UNCHANGED avars
    \/ Post /\ UNCHANGED <<avars, hvars>>
    \/ Respond /\ UNCHANGED <<avars, hvars>>
    \/ Return /\ UNCHANGED <<avars, hvars>>
    \/ AnalyzeBulkReturn /\ UNCHANGED avars

SpecDispatch == InitDispatch /\ [][NextDispatch]_vars

\* ---------------------------------------------------------------------------
\* Dispatcher claims (checked under SpecBulk)
\* ---------------------------------------------------------------------------
\* What the webhook did, said without reference to the code's branches.
IsOk(beh) == beh.kind = "response" /\ beh.status_code = 200 /\ beh.text \in JsonBodies
IsTimeout(beh) == beh.kind = "exception" /\ beh.class \in {"ReadTimeout", "ConnectTimeout"}
IsNon200(beh) == beh.kind = "response" /\ beh.status_code # 200
IsOtherFailure(beh) == ~IsOk(beh) /\ ~IsTimeout(beh) /\ ~IsNon200(beh)

\* C1: when analyze_bulk_urls returns, results has one entry per input URL in
\* input order, total_urls is the number of input URLs, successful counts the
\* entries with status 'success', failed counts all the others, and
\* successful + failed = total_urls; three URLs of which the second timed out
\* and the others succeeded give successful = 2 and failed = 1.
C1_BulkSummary ==
    pc = "done" =>
        LET r == bulk_return
            n == Len(urls) IN
        /\ Len(r.results) = n
        /\ \A i \in 1..n : r.results[i].url = urls[i]
        /\ r.total_urls = n
        /\ r.successful = Cardinality({i \in 1..n : r.results[i].status = "success"})
        /\ r.failed = Cardinality({i \in 1..n : r.results[i].status # "success"})
        /\ r.successful + r.failed = r.total_urls
        /\ (n = 3 /\ IsOk(log[1].beh) /\ IsTimeout(log[2].beh) /\ IsOk(log[3].beh))
              => (r.successful = 2 /\ r.failed = 1)

C1_Witness ==
    /\ pc = "done"
    /\ Len(urls) = 3
    /\ urls[1] # urls[2]
    /\ IsOk(log[1].beh) /\ IsTimeout(log[2].beh) /\ IsOk(log[3].beh)
    /\ bulk_return.successful = 2
    /\ bulk_return.failed = 1
    /\ bulk_return.results[2].error = TimeoutMessage

\* C2: the batch is strictly sequential: at most one request of the batch is
\* in flight, and a position's request has been sent only if the results of
\* all earlier positions have been obtained.
C2_Sequential ==
    /\ Cardinality(inflight) <= 1
    /\ \A p \in DOMAIN sent : sent[p] > 0 => Len(results) >= p - 1
    /\ \A p \in inflight : Len(results) = p - 1 /\ Len(log) = p - 1

C2_Witness ==
    /\ pc = "await"
    /\ inflight = {2}
    /\ Len(results) = 1
    /\ Len(urls) = 3
    /\ sent = <<1, 1, 0>>

\* C3: every position of the batch is sent to the classifier exactly once: no
\* position is ever sent twice, the batch never aborts, and when it returns
\* every position has been sent once and the k-th entry of results is the
\* outcome of the only request for position k, an error entry when that
\* request failed.
C3_ExactlyOnce ==
    /\ pc # "raised"
    /\ \A p \in DOMAIN sent : sent[p] <= 1
    /\ \A k \in 1..Len(results) :
          /\ sent[k] = 1
          /\ log[k].pos = k
          /\ ~IsOk(log[k].beh) => results[k].status = "error"
    /\ pc = "done" =>
          /\ Len(log) = Len(urls)
          /\ \A p \in DOMAIN sent : sent[p] = 1
          /\ \A p \in 1..Len(urls) :
                /\ log[p].pos = p
                /\ bulk_return.results[p].url = urls[p]
                /\ IsOk(log[p].beh) <=> bulk_return.results[p].status = "success"

C3_Witness ==
    /\ pc = "done"
    /\ Len(urls) = 3
    /\ IsTimeout(log[1].beh)
    /\ IsNon200(log[2].beh)
    /\ IsOk(log[3].beh)
    /\ sent = <<1, 1, 1>>
    /\ bulk_return.results[1].status = "error"
    /\ bulk_return.results[3].status = "success"

\* C4: analyze_single_url never raises: whatever the webhook does, the call
\* returns a dict carrying the input url and a status that is 'success' or
\* 'error'; it is 'success', with a data field, exactly when the webhook
\* answered 200 with a decodable body, and 'error', with an error string,
\* otherwise.
C4_NeverRaises ==
    /\ pc # "raised"
    /\ Len(results) = Len(log)
    /\ \A k \in 1..Len(log) :
          LET r == results[k]
              beh == log[k].beh IN
          /\ log[k].via # "raise"
          /\ r.url = urls[log[k].pos]
          /\ r.status \in {"success", "error"}
          /\ r.status = "success" <=> IsOk(beh)
          /\ r.status = "success" => DOMAIN r = {"url", "status", "data"}
          /\ r.status = "error" => DOMAIN r = {"url", "status", "error"} /\ r.error \in STRING

C4_Witness ==
    \E k \in 1..Len(results) :
        /\ log[k].beh.kind = "response"
        /\ log[k].beh.status_code = 200
        /\ ~IsOk(log[k].beh)
        /\ results[k].status = "error"
        /\ results[k].url = urls[k]

\* C5: a classification that times out returns an error result whose message
\* is the timeout message, through the timeout clause; a failure that is not
\* a timeout returns an error result too, never through the timeout clause,
\* and a non-200 response never carries the timeout message.
C5_TimeoutDistinguished ==
    /\ pc # "raised"
    /\ \A k \in 1..Len(results) :
          LET r == results[k]
              beh == log[k].beh IN
          /\ IsTimeout(beh) =>
                /\ r.status = "error"
                /\ r.error = TimeoutMessage
                /\ log[k].via = "except TimeoutException"
          /\ (IsNon200(beh) \/ IsOtherFailure(beh)) =>
                /\ r.status = "error"
                /\ log[k].via # "except TimeoutException"
          /\ IsNon200(beh) => r.error # TimeoutMessage

C5_Witness ==
    \E j, k \in 1..Len(results) :
        /\ IsTimeout(log[j].beh)
        /\ results[j].error = TimeoutMessage
        /\ IsOtherFailure(log[k].beh)
        /\ log[k].beh.kind = "exception"
        /\ results[k].error = log[k].beh.msg

\* ---------------------------------------------------------------------------
\* Aggregation claims (checked under SpecAgg)
\* ---------------------------------------------------------------------------
Abs(x) == IF x < 0 THEN -x ELSE x
HasAll(rows, key) == \A i \in 1..Len(rows) : key \in DOMAIN rows[i]
Scores(rows) == [i \in 1..Len(rows) |-> rows[i].risk_score]

\* C6: get_statistics returns non-negative integers with
\* safe_urls + phishing_detected = total_analyses, and total_analyses is the
\* number of records read, also when records lack is_phishing.
C6_SafePlusPhishing ==
    op = "get_statistics" =>
        /\ reply.total_analyses \in Nat
        /\ reply.phishing_detected \in Nat
        /\ reply.safe_urls \in Nat
        /\ reply.safe_urls + reply.phishing_detected = reply.total_analyses
        /\ reply.total_analyses = Len(data)

C6_Witness ==
    /\ op = "get_statistics"
    /\ Len(data) = 3
    /\ \E i \in 1..Len(data) : "is_phishing" \notin DOMAIN data[i]
    /\ \E i \in 1..Len(data) : "is_phishing" \in DOMAIN data[i] /\ data[i].is_phishing
    /\ reply.phishing_detected = 1
    /\ reply.safe_urls = 2

\* C7: the risk buckets partition the records read: low + medium + high is
\* total_analyses, and when every record has an integer risk_score, low counts
\* the scores below 40, medium those from 40 to 69 and high those of 70 or
\* more, so that 39, 40, 69 and 70 fall in low, medium, medium and high.
C7_RiskPartition ==
    op = "get_statistics" =>
        LET d == reply.risk_distribution
            n == Len(data)
            score == Scores(data) IN
        /\ d.low + d.medium + d.high = reply.total_analyses
        /\ HasAll(data, "risk_score") =>
              /\ d.low = Cardinality({i \in 1..n : score[i] < 40})
              /\ d.medium = Cardinality({i \in 1..n : 40 <= score[i] /\ score[i] < 70})
              /\ d.high = Cardinality({i \in 1..n : score[i] >= 70})
              /\ (n = 1 /\ score[1] = 39) => d = [low |-> 1, medium |-> 0, high |-> 0]
              /\ (n = 1 /\ score[1] = 40) => d = [low |-> 0, medium |-> 1, high |-> 0]
              /\ (n = 1 /\ score[1] = 69) => d = [low |-> 0, medium |-> 1, high |-> 0]
              /\ (n = 1 /\ score[1] = 70) => d = [low |-> 0, medium |-> 0, high |-> 1]

C7_Witness ==
    /\ op = "get_statistics"
    /\ Len(data) = 3
    /\ HasAll(data, "risk_score")
    /\ {data[i].risk_score : i \in 1..3} = {40, 69, 70}
    /\ reply.risk_distribution = [low |-> 0, medium |-> 2, high |-> 1]

\* C8: when no record is read, get_statistics returns the all-zero summary
\* with an all-zero risk_distribution, get_confidence_distribution returns
\* three zero counts, get_sources_usage an empty mapping and
\* get_daily_analysis_count an empty sequence.
C8_EmptySet ==
    (op # "none" /\ data = <<>>) =>
        /\ op = "get_statistics" =>
              /\ DOMAIN reply = {"total_analyses", "phishing_detected", "safe_urls",
                                 "avg_risk_score", "phishing_percentage", "risk_distribution"}
              /\ reply.total_analyses = 0
              /\ reply.phishing_detected = 0
              /\ reply.safe_urls = 0
              /\ reply.avg_risk_score = 0
              /\ reply.phishing_percentage = 0
              /\ reply.risk_distribution = [low |-> 0, medium |-> 0, high |-> 0]
        /\ op = "get_confidence_distribution" => reply = [low |-> 0, medium |-> 0, high |-> 0]
        /\ op = "get_sources_usage" => DOMAIN reply = {}
        /\ op = "get_daily_analysis_count" => Len(reply) = 0

C8_Witness ==
    /\ store = <<>>
    /\ op = "get_statistics"
    /\ data = <<>>
    /\ reply.total_analyses = 0
    /\ reply.risk_distribution.low = 0

\* C9: for a non-empty set of records that all have a risk_score,
\* phishing_percentage is phishing_detected / total_analyses * 100 and
\* avg_risk_score is the mean risk_score, each rounded to the nearest
\* hundredth and both by the same rule: when the percentage and the mean have
\* the same exact value, the two figures are equal.  Risks 10, 85, 50 with
\* only the second record phishing give 33.33 and 48.33.
C9_SameRule ==
    (op = "get_statistics" /\ data # <<>> /\ HasAll(data, "risk_score")) =>
        LET total == reply.total_analyses
            sum == Sum(Scores(data)) IN
        /\ 2 * Abs(reply.phishing_percentage * total - 10000 * reply.phishing_detected) <= total
        /\ 2 * Abs(reply.avg_risk_score * total - 100 * sum) <= total
        /\ 100 * reply.phishing_detected = sum
              => reply.phishing_percentage = reply.avg_risk_score
        /\ (/\ total = 3
            /\ {data[i].risk_score : i \in 1..3} = {10, 50, 85}
            /\ \A i \in 1..3 : IsPhishing(data[i]) <=> data[i].risk_score = 85)
              => (reply.phishing_percentage = 3333 /\ reply.avg_risk_score = 4833)

\* C10 as stated: every record whose confidence_level is missing or is not one
\* of low, medium, high is counted toward low, so low + medium + high is the
\* number of records.
Levels == {"low", "medium", "high"}

C10_UnrecognisedCountsAsLow ==
    op = "get_confidence_distribution" =>
        LET n == Len(data) IN
        /\ reply.low = Cardinality({i \in 1..n :
                \/ "confidence_level" \notin DOMAIN data[i]
                \/ data[i].confidence_level \notin {"medium", "high"}})
        /\ reply.low + reply.medium + reply.high = n

\* C10 amended: a record whose confidence_level is missing is counted toward
\* low; a record whose confidence_level is present and not one of low,
\* medium, high is counted in no bucket; so low + medium + high is the number
\* of records whose confidence_level is missing or one of the three.
C10_MissingCountsAsLow ==
    op = "get_confidence_distribution" =>
        LET n == Len(data)
            missing == {i \in 1..n : "confidence_level" \notin DOMAIN data[i]}
            level(l) == {i \in 1..n \ missing : data[i].confidence_level = l}
            other == {i \in 1..n \ missing : data[i].confidence_level \notin Levels} IN
        /\ reply.low = Cardinality(missing) + Cardinality(level("low"))
        /\ reply.medium = Cardinality(level("medium"))
        /\ reply.high = Cardinality(level("high"))
        /\ reply.low + reply.medium + reply.high = n - Cardinality(other)

C10_Witness ==
    /\ op = "get_confidence_distribution"
    /\ Len(data) = 3
    /\ \E i \in 1..3 : "confidence_level" \notin DOMAIN data[i]
    /\ \E i \in 1..3 : "confidence_level" \in DOMAIN data[i] /\ data[i].confidence_level = "unknown"
    /\ reply.low = 1
    /\ reply.low + reply.medium + reply.high = 2

\* C11: in get_confidence_distribution a record whose confidence_level is
\* present but is not low, medium or high raises no error, adds no key and
\* increments no count: the result has exactly the keys low, medium, high,
\* and records of that kind alone leave all three counts at zero.
C11_UnrecognisedExcluded ==
    op = "get_confidence_distribution" =>
        LET n == Len(data)
            other == {i \in 1..n : /\ "confidence_level" \in DOMAIN data[i]
                                   /\ data[i].confidence_level \notin Levels} IN
        /\ DOMAIN reply = Levels
        /\ \A l \in Levels : reply[l] \in Nat
        /\ reply.low + reply.medium + reply.high <= n - Cardinality(other)
        /\ Cardinality(other) = n => reply = [low |-> 0, medium |-> 0, high |-> 0]

C11_Witness ==
    /\ op = "get_confidence_distribution"
    /\ Len(data) = 2
    /\ HasAll(data, "confidence_level")
    /\ {data[i].confidence_level : i \in 1..2} = {"unknown", "HIGH"}
    /\ reply = [low |-> 0, medium |-> 0, high |-> 0]

\* The source names one record lists.
Listed(item) == {SourceList(item)[j] : j \in 1..Len(SourceList(item))}

\* C12: sources_usage[s] is the number of records in which source s appears:
\* a record contributes at most once to a source name, also when it lists
\* that name more than once.
C12_OncePerRecord ==
    op = "get_sources_usage" =>
        \A s \in DOMAIN reply :
            reply[s] = Cardinality({i \in 1..Len(data) : s \in Listed(data[i])})

\* C13: every key of sources_usage is a non-empty source name listed by some
\* record: no empty name arises from a trailing comma, consecutive commas or
\* a blank string.
C13_NoEmptyKey ==
    op = "get_sources_usage" =>
        \A s \in DOMAIN reply :
            /\ s # <<>>
            /\ \E i \in 1..Len(data) : s \in Listed(data[i])

\* The calendar day of a stored timestamp, as a day number.
DayOf(item) == Timestamp(item.analysis_date).date

\* C14: get_daily_analysis_count returns one {date, count} entry per calendar
\* day that has a record among those read, the date without its time part,
\* the count the number of records of that day (never 0), the entries
\* strictly ascending by date and the counts summing to the number of
\* records read; records at 2024-01-01T10:00, 2024-01-01T15:00 and
\* 2024-01-02T09:00 give [{2024-01-01, 2}, {2024-01-02, 1}].
C14_DailyCounts ==
    op = "get_daily_analysis_count" =>
        LET n == Len(data)
            days == {DayOf(data[i]) : i \in 1..n}
            day(j) == DayNumber(reply[j].date[1]) IN
        /\ Len(reply) = Cardinality(days)
        /\ \A j \in 1..Len(reply) :
              /\ Len(reply[j].date) = 1
              /\ day(j) \in days
              /\ reply[j].count = Cardinality({i \in 1..n : DayOf(data[i]) = day(j)})
              /\ reply[j].count > 0
              /\ j < Len(reply) => day(j) < day(j + 1)
        /\ Sum([j \in 1..Len(reply) |-> reply[j].count]) = n
        /\ (n = 3 /\ {data[i].analysis_date : i \in 1..n} =
                        { <<"2024-01-01", "T", "10:00:00">>,
                          <<"2024-01-01", "T", "15:00:00">>,
                          <<"2024-01-02", "T", "09:00:00">> })
              => reply = << [date |-> <<"2024-01-01">>, count |-> 2],
                            [date |-> <<"2024-01-02">>, count |-> 1] >>

C14_Witness ==
    /\ op = "get_daily_analysis_count"
    /\ Len(data) = 3
    /\ {data[i].analysis_date : i \in 1..3} =
          { <<"2024-01-01", "T", "10:00:00">>,
            <<"2024-01-01", "T", "15:00:00">>,
            <<"2024-01-02", "T", "09:00:00">> }
    /\ reply = << [date |-> <<"2024-01-01">>, count |-> 2],
                  [date |-> <<"2024-01-02">>, count |-> 1] >>

\* ---------------------------------------------------------------------------
\* Query endpoint claims (checked under SpecApi)
\* ---------------------------------------------------------------------------
\* How often row occurs in rows.
Count(rows, row) == Cardinality({i \in 1..Len(rows) : rows[i] = row})

\* rows holds exactly the elements of selected, in some order.
SameRows(rows, selected) ==
    /\ Len(rows) = Len(selected)
    /\ \A i \in 1..Len(selected) : Count(rows, selected[i]) = Count(selected, selected[i])

\* A request was answered; it carries two parsable dates; the store answered
\* every query of it.
Served == request.endpoint # "none" /\ http_response.status_code # 0
AllUp == \A k \in DOMAIN request.ups : request.ups[k]
BothDates ==
    /\ Given(request.start_date) /\ "ret" \in DOMAIN fromisoformat(request.start_date.str)
    /\ Given(request.end_date) /\ "ret" \in DOMAIN fromisoformat(request.end_date.str)

\* The rows of the store from start_date up to the end of end_date's
\* calendar day, whatever their time on that day.
RECURSIVE WholeDays(_, _, _)
WholeDays(rows, start, end) ==
    IF rows = <<>> THEN <<>>
    ELSE (IF /\ Instant(Timestamp(Head(rows).analysis_date)) >= Instant(start)
             /\ DayOf(Head(rows)) <= end.date
          THEN <<Head(rows)>> ELSE <<>>) \o WholeDays(Tail(rows), start, end)

\* C15: with both start_date and end_date given, every query of the request
\* reads exactly the records with start_date <= analysis_date <= the end of
\* end_date's calendar day, every record of that day included.
C15_WholeEndDay ==
    (Served /\ BothDates /\ AllUp) =>
        /\ http_response.status_code = 200
        /\ \A k \in 1..Len(reads) :
              SameRows(reads[k], WholeDays(request.tables[k],
                                           fromisoformat(request.start_date.str).ret,
                                           fromisoformat(request.end_date.str).ret))

\* A parameter that is supplied and is no ISO date.
Malformed(param) == Given(param) /\ "exc" \in DOMAIN fromisoformat(param.str)

\* C16: a request whose start_date or end_date is not a valid ISO date is
\* answered 400, never 200 and never 5xx, whether one or both parameters are
\* supplied.
C16_MalformedRejected ==
    (Served /\ (Malformed(request.start_date) \/ Malformed(request.end_date))) =>
        http_response.status_code = 400

\* The answers of the three endpoints over no records.
EmptyBody(endpoint) ==
    CASE endpoint = "/api/statistics" ->
             [total_analyses |-> 0, phishing_detected |-> 0, safe_urls |-> 0,
              avg_risk_score |-> 0, phishing_percentage |-> 0,
              risk_distribution |-> [low |-> 0, medium |-> 0, high |-> 0],
              confidence_distribution |-> [low |-> 0, medium |-> 0, high |-> 0],
              sources_usage |-> <<>>]
      [] endpoint = "/api/analyses" -> [total |-> 0, data |-> <<>>]
      [] endpoint = "/api/daily-counts" -> [data |-> <<>>]

\* C17: a store query that raises yields an empty list to its caller, never
\* an exception: no endpoint answers with a server error, a query the store
\* failed read no rows, and a request all of whose queries failed gets the
\* empty-set answer.
C17_StoreDownIsEmpty ==
    Served =>
        /\ http_response.status_code \in {200, 400}
        /\ http_response.status_code = 200 =>
              /\ Len(reads) = Len(request.ups)
              /\ \A k \in 1..Len(reads) : ~request.ups[k] => reads[k] = <<>>
              /\ (\A k \in 1..Len(reads) : ~request.ups[k])
                    => http_response.body = EmptyBody(request.endpoint)

C17_Witness ==
    /\ request.endpoint = "/api/statistics"
    /\ Len(store) = 2
    /\ request.ups = <<FALSE, FALSE, FALSE>>
    /\ http_response.status_code = 200
    /\ http_response.body.total_analyses = 0
    /\ reads = << <<>>, <<>>, <<>> >>

\* C20: with start_date and end_date both absent, /api/statistics (its three
\* aggregates) and /api/analyses work on all records of the store: every
\* query reads each record the store holds at that query once, total_analyses
\* and total are the size of the table read and the confidence counts are
\* those of the whole table read.
C20_NoDatesAllRecords ==
    (/\ Served
     /\ request.endpoint \in {"/api/statistics", "/api/analyses"}
     /\ IsNone(request.start_date) /\ IsNone(request.end_date)
     /\ AllUp) =>
        /\ http_response.status_code = 200
        /\ Len(reads) = Len(request.ups)
        /\ \A k \in 1..Len(reads) : SameRows(reads[k], request.tables[k])
        /\ request.endpoint = "/api/statistics" =>
              /\ http_response.body.total_analyses = Len(request.tables[1])
              /\ http_response.body.confidence_distribution
                     = ConfidenceDistribution(request.tables[2])
        /\ request.endpoint = "/api/analyses" =>
              /\ http_response.body.total = Len(request.tables[1])
              /\ SameRows(http_response.body.data, request.tables[1])

C20_Witness ==
    /\ request.endpoint = "/api/analyses"
    /\ IsNone(request.start_date) /\ IsNone(request.end_date)
    /\ AllUp
    /\ Len(store) = 2
    /\ store[1] # store[2]
    /\ http_response.body.total = 2

\* ---------------------------------------------------------------------------
\* Analysis endpoint claims (checked under SpecDispatch)
\* ---------------------------------------------------------------------------
\* C18: POST /api/analyze answers 200 with the result, of status 'success',
\* exactly when the webhook call succeeded; on every failure of the call
\* (timeout, non-200, undecodable body, network error) it answers 500, and it
\* never answers 200 with a body of status 'error'.
\* A body whose url is no URL is answered 422 and nothing is sent; the result
\* carries the url in the normal form that was sent to the webhook.
C18_AnalyzeErrorIs500 ==
    (request.endpoint = "/api/analyze" /\ http_response.status_code # 0) =>
        IF "exc" \in DOMAIN HttpUrl(request.url)
        THEN http_response.status_code = 422 /\ log = <<>> /\ sent = <<>>
        ELSE
        /\ Len(log) = 1 /\ sent = <<1>>
        /\ http_response.status_code \in {200, 500}
        /\ http_response.status_code = 200 <=> IsOk(log[1].beh)
        /\ http_response.status_code = 200 =>
              /\ http_response.body.status = "success"
              /\ http_response.body.url = HttpUrl(request.url).ret
              /\ http_response.body.url = urls[1]
        /\ ~IsOk(log[1].beh) =>
              /\ http_response.status_code = 500
              /\ "body" \notin DOMAIN http_response

C18_Witness ==
    /\ request.endpoint = "/api/analyze"
    /\ request.url = "http://a.example"
    /\ urls = <<"http://a.example/">>
    /\ Len(log) = 1
    /\ IsTimeout(log[1].beh)
    /\ http_response.status_code = 500
    /\ http_response.detail = "500: " \o TimeoutMessage

\* C19: a bulk request is accepted only with 1 to 100 urls: a list of 0 or of
\* more than 100 is answered with a validation error before any URL is sent
\* to the webhook, the dispatcher only ever runs batches of 1 to 100 URLs,
\* and every 200 answer has total_urls in 1..100.
C19_BulkSizeLimits ==
    request.endpoint = "/api/analyze/bulk" =>
        /\ Len(request.urls) \notin 1..100 =>
              /\ http_response.status_code = 422
              /\ pc = "idle"
              /\ sent = <<>>
              /\ log = <<>>
        /\ Len(request.urls) \in 1..100 => (pc # "idle" /\ urls = request.urls)
        /\ http_response.status_code = 200 =>
              /\ http_response.body.total_urls \in 1..100
              /\ http_response.body.total_urls = Len(request.urls)

C19_Witness ==
    /\ request.endpoint = "/api/analyze/bulk"
    /\ Len(request.urls) = 100
    /\ http_response.status_code = 200
    /\ http_response.body.total_urls = 100
    /\ \A p \in 1..100 : sent[p] = 1

\* ---------------------------------------------------------------------------
\* Frame, order and consistency claims
\* ---------------------------------------------------------------------------
\* The row is one of the rows of the table, field for field.
Stored(row) == \E j \in 1..Len(store) : store[j] = row

\* C21: no aggregate and no query endpoint modifies the store or the records
\* it reads: every step of get_statistics, get_confidence_distribution,
\* get_sources_usage, get_daily_analysis_count and of the three query
\* handlers leaves the store as it was (the store changes only in a step of
\* the workflow that stores a record, which is no step of theirs), and the
\* rows an operation holds are rows of the store, unchanged.
C21_ReadOnly ==
    [][/\ <<op, data, reply, request, http_response, reads>>
              # <<op', data', reply', request', http_response', reads'>> => store' = store
       /\ \A i \in 1..Len(data') : Stored(data'[i])
       /\ \A k \in 1..Len(reads') : \A i \in 1..Len(reads'[k]) : Stored(reads'[k][i])]_vars

C21_Witness ==
    /\ request.endpoint = "/api/statistics"
    /\ http_response.status_code = 200
    /\ Len(request.tables[1]) = 1
    /\ Len(store) = 2
    /\ request.tables[3] = store
    /\ Len(reads[1]) = 1
    /\ Len(reads[3]) = 2

\* The orders of n rows, and rows taken in the order p.
Orders(n) == {p \in [1..n -> 1..n] : \A i, j \in 1..n : i # j => p[i] # p[j]}
InOrder(rows, p) == [i \in 1..Len(rows) |-> rows[p[i]]]

\* C22: the aggregates do not depend on the order of the rows they read:
\* what get_statistics, get_confidence_distribution, get_sources_usage (as a
\* mapping from source to count) and get_daily_analysis_count returned is
\* what they return for the same rows taken in any other order.
C22_OrderIndependent ==
    op # "none" =>
        \A p \in Orders(Len(data)) :
            /\ op = "get_statistics" => Statistics(InOrder(data, p)) = reply
            /\ op = "get_confidence_distribution" =>
                  ConfidenceDistribution(InOrder(data, p)) = reply
            /\ op = "get_sources_usage" => SourcesUsage(InOrder(data, p)) = reply
            /\ op = "get_daily_analysis_count" => DailyCounts(InOrder(data, p)) = reply

C22_Witness ==
    /\ op = "get_statistics"
    /\ Len(data) = 3
    /\ \A i, j \in 1..3 : i # j =>
          /\ HasAll(<<data[i], data[j]>>, "risk_score")
          /\ data[i].risk_score # data[j].risk_score
    /\ reply.total_analyses = 3
    /\ reply = Statistics(InOrder(data, <<3, 1, 2>>))

\* The number of times source is listed in rows.
Mentions(rows, source) ==
    Sum([i \in 1..Len(rows) |->
            Cardinality({j \in 1..Len(SourceList(rows[i])) : SourceList(rows[i])[j] = source})])

\* C23: every /api/statistics response is computed from one set of records:
\* its three parts were read from the same rows, the confidence counts sum to
\* no more than total_analyses, and no source is counted more often than it
\* is listed in the records that total_analyses counts -- also when a record
\* is stored or the store stops answering while the handler runs.
C23_OneSnapshot ==
    (request.endpoint = "/api/statistics" /\ http_response.status_code = 200) =>
        LET body == http_response.body IN
        /\ SameRows(reads[2], reads[1])
        /\ SameRows(reads[3], reads[1])
        /\ body.confidence_distribution.low + body.confidence_distribution.medium
               + body.confidence_distribution.high <= body.total_analyses
        /\ \A source \in DOMAIN body.sources_usage :
              body.sources_usage[source] <= Mentions(reads[1], source)

\* Exactly one of the two parameters is supplied, and it is a valid date.
OneDate ==
    \/ /\ Given(request.start_date) /\ "ret" \in DOMAIN fromisoformat(request.start_date.str)
       /\ ~Given(request.end_date)
    \/ /\ Given(request.end_date) /\ "ret" \in DOMAIN fromisoformat(request.end_date.str)
       /\ ~Given(request.start_date)

\* C24: with exactly one of start_date / end_date supplied (a valid date),
\* /api/statistics and /api/analyses apply no date filter: the response is
\* the response to the same request with neither bound, computed over all
\* records of the store.
C24_OneBoundIsNoBound ==
    /\ (Served /\ request.endpoint = "/api/statistics" /\ OneDate) =>
          /\ http_response = api_statistics(request.tables, None, None, request.ups).response
          /\ \A k \in 1..Len(reads) : request.ups[k] => SameRows(reads[k], request.tables[k])
    /\ (Served /\ request.endpoint = "/api/analyses" /\ OneDate) =>
          /\ http_response = api_analyses(request.tables[1], None, None, request.ups[1]).response
          /\ request.ups[1] => http_response.body.total = Len(request.tables[1])

C24_Witness ==
    /\ request.endpoint = "/api/statistics"
    /\ OneDate
    /\ Given(request.start_date)
    /\ request.start_date.str = "2024-01-05"
    /\ AllUp
    /\ Len(store) = 2
    /\ \E i \in 1..2 : DayOf(store[i]) < 5
    /\ http_response.status_code = 200
    /\ http_response.body.total_analyses = 2

\* ---------------------------------------------------------------------------
\* Termination claim (checked under SpecBulkLive)
\* ---------------------------------------------------------------------------
\* C25: provided every classification call ends, a batch of n URLs that was
\* started runs to completion: it eventually returns its summary, and it
\* returns only after exactly n classification calls and with n results --
\* nothing ends it after fewer.
C25_RunsToCompletion ==
    /\ [](pc \in {"done", "raised"} =>
             /\ pc = "done"
             /\ Len(log) = Len(urls)
             /\ Len(bulk_return.results) = Len(urls)
             /\ bulk_return.total_urls = Len(urls))
    /\ (pc # "idle") ~> (pc = "done" /\ Len(log) = Len(urls) /\ inflight = {})

C25_Witness ==
    /\ pc = "done"
    /\ Len(urls) = 3
    /\ Len(log) = 3
    /\ \A k \in 1..3 : IsTimeout(log[k].beh)
    /\ bulk_return.failed = 3
    /\ Len(bulk_return.results) = 3

====
